---- MODULE Spec2Model ----
(***************************************************************************)
(* Submission intake and aggregate ledger of sovereign-vote                *)
(* (src/worker.js; src/unnamed/part_000 is the second transport variant).  *)
(*                                                                         *)
(* Durable state: the three D1 tables of ensureSchema.  Every prepared     *)
(* statement (SELECT, INSERT, upsert, UPDATE) is one atomic storage step;  *)
(* a request is a process that walks through handleSubmit one awaited      *)
(* statement at a time and may interleave with every other request.        *)
(*                                                                         *)
(* Specifications:                                                         *)
(*   Spec           submit requests, every interleaving, with failures     *)
(*   SpecSeq        submit requests one after another                      *)
(*   SpecValidate   the validator over every shape of payload              *)
(*   SpecResults    submit requests interleaved with a results request     *)
(*   SpecRates      the results report over ledgers of up to MaxTotal      *)
(*   SpecSeparator  respondents whose fields hold the key's separator      *)
(*   SpecColliding  respondents whose receipt ids coincide                 *)
(*   SpecBoth       worker.js and part_000 fed the same requests           *)
(***************************************************************************)
EXTENDS Integers, Sequences, FiniteSets, TLC

VARIABLES
    submissions,    \* table submissions, in insertion order
    aggregates,     \* table aggregates: k -> v, only the rows that exist
    region_counts,  \* table region_counts: region -> [total, approve_yes]
    reqs,           \* per request: position in handleSubmit, its locals, its
                    \* response, and (history) the tables it has written
    results,        \* the GET /api/results request: position in handleResults
                    \* and the report it has assembled so far
    alt             \* src/unnamed/part_000 fed the same requests: its tables,
                    \* its responses and its report

vars == <<submissions, aggregates, region_counts, reqs, results, alt>>

\* ------------------------------------------------------------------ bounds
MaxReqs == 2

Reqs == 1..MaxReqs

\* ------------------------------------------------------- JavaScript values
\* A JSON value as request.json() delivers it, tagged with its type.
\* Strings are sequences of characters.
Undef == [t |-> "undefined"]
Null == [t |-> "null"]
Str(s) == [t |-> "string", s |-> s]
Num(n) == [t |-> "number", n |-> n]
Bool(b) == [t |-> "boolean", b |-> b]
Arr == [t |-> "array"]
Obj(fields) == [t |-> "object", fields |-> fields]

\* !!v
Truthy(v) ==
    CASE v.t = "undefined" -> FALSE
      [] v.t = "null" -> FALSE
      [] v.t = "string" -> v.s # <<>>
      [] v.t = "number" -> v.n # 0
      [] v.t = "boolean" -> v.b
      [] OTHER -> TRUE

\* typeof v === "object" (true of null and of arrays as well)
TypeofObject(v) == v.t \in {"object", "array", "null"}

\* v?.name : undefined on undefined/null and on values without the property
Get(v, name) ==
    IF v.t = "object" /\ name \in DOMAIN v.fields THEN v.fields[name] ELSE Undef

\* ---------------------------------------------------------------- validator
Keep(cond, msg) == IF cond THEN <<msg>> ELSE <<>>

\* Bug variant of validatePayload: returns at the first violation found.
validatePayload_FailFast(p) ==
    IF ~Truthy(p) \/ ~TypeofObject(p)
    THEN <<"Payload must be JSON object">>
    ELSE LET all == Keep(~Truthy(Get(p, "schema_version")), "Missing schema_version")
                  \o Keep(~Truthy(Get(p, "created_utc")), "Missing created_utc")
                  \o Keep(~Truthy(Get(p, "voter_id")), "Missing voter_id")
                  \o Keep(~Truthy(Get(p, "context")) \/ ~TypeofObject(Get(p, "context")),
                          "Missing context object")
                  \o Keep(~Truthy(Get(Get(p, "context"), "region")), "Missing context.region")
                  \o Keep(~Truthy(Get(Get(p, "context"), "country_or_territory")),
                          "Missing context.country_or_territory")
         IN  IF all = <<>> THEN <<>> ELSE <<Head(all)>>

\* worker.js validatePayload: the list of error messages, in push order
validatePayload(p) ==
    IF ~Truthy(p) \/ ~TypeofObject(p)
    THEN <<"Payload must be JSON object">>
    ELSE Keep(~Truthy(Get(p, "schema_version")), "Missing schema_version")
      \o Keep(~Truthy(Get(p, "created_utc")), "Missing created_utc")
      \o Keep(~Truthy(Get(p, "voter_id")), "Missing voter_id")
      \o Keep(~Truthy(Get(p, "context")) \/ ~TypeofObject(Get(p, "context")),
              "Missing context object")
      \o Keep(~Truthy(Get(Get(p, "context"), "region")), "Missing context.region")
      \o Keep(~Truthy(Get(Get(p, "context"), "country_or_territory")),
              "Missing context.country_or_territory")

\* part_000 validate: no object checks, every access through ?.
validate(p) ==
    Keep(~Truthy(Get(p, "schema_version")), "Missing schema_version")
      \o Keep(~Truthy(Get(p, "created_utc")), "Missing created_utc")
      \o Keep(~Truthy(Get(p, "voter_id")), "Missing voter_id")
      \o Keep(~Truthy(Get(Get(p, "context"), "region")), "Missing context.region")
      \o Keep(~Truthy(Get(Get(p, "context"), "country_or_territory")),
              "Missing context.country_or_territory")

\* ------------------------------------------------------------- fingerprint
windowId == <<"W">>

Digits == <<"0", "1", "2", "3", "4", "5", "6", "7", "8", "9">>

RECURSIVE Decimal(_)
\* The decimal digits of a non-negative integer.
Decimal(n) ==
    IF n < 10 THEN <<Digits[n + 1]>>
    ELSE Decimal(n \div 10) \o <<Digits[(n % 10) + 1]>>

\* String(v), as a template literal and a TEXT column render a value
toStr(v) ==
    CASE v.t = "string" -> v.s
      [] v.t = "number" -> Decimal(v.n)
      [] v.t = "boolean" -> IF v.b THEN <<"t","r","u","e">> ELSE <<"f","a","l","s","e">>
      [] OTHER -> <<"[","o","b","j","]">>

\* Bug variant of keyString: the submission's region is hashed into the key
\* as well, so one respondent gets a key per region.
keyString_WithRegion(p) ==
    toStr(Get(p, "voter_id")) \o <<"|">> \o toStr(Get(p, "schema_version"))
        \o <<"|">> \o toStr(Get(Get(p, "context"), "region"))
        \o <<"|">> \o windowId

\* `${payload.voter_id}|${payload.schema_version}|${windowId}`
keyString(p) ==
    toStr(Get(p, "voter_id")) \o <<"|">> \o toStr(Get(p, "schema_version"))
        \o <<"|">> \o windowId

\* SHA-256 rendered as a hex string, idealised as collision-free: the digest
\* names its preimage and nothing else about the digest is known.
sha256(str) == Str(<<"sha256", str>>)

dedupeKeyOf(p) == sha256(keyString(p))

\* Two respondents whose receipt ids coincide for schema_version "1" in the
\* window "2026-01-03_to_2026-02-02": the SHA-256 digests of their dedupe
\* keys are dbf3c1dc8d6ef994... and dbf3c1dceca17303...
CollidingVoterIds == {<<"v">> \o Decimal(13818), <<"v">> \o Decimal(146467)}

CollidingDigests ==
    {sha256(sha256(v \o <<"|", "1", "|">> \o windowId).s) : v \in CollidingVoterIds}

\* digest.slice(0, 8): 32 of the digest's 256 bits.  Digests are told apart
\* by their leading 8 hex digits except where a collision is known.
slice8(digest) ==
    IF digest \in CollidingDigests
    THEN <<"d", "b", "f", "3", "c", "1", "d", "c">>
    ELSE <<digest>>

\* "r_" + sha256(dedupeKey).slice(0, 8)
receiptIdOf(dedupeKey) == Str(<<"r", "_">> \o slice8(sha256(dedupeKey.s)))

\* ------------------------------------------------------ ballot and region
\* updateAggregates: !!p?.ballot_track_a?.approve_interim_masculine_regent
approveOf(p) ==
    Truthy(Get(Get(p, "ballot_track_a"), "approve_interim_masculine_regent"))

\* updateAggregates: !!p?.ballot_track_a?.prefer_open_contest_in_approx_90_days
preferOf(p) ==
    Truthy(Get(Get(p, "ballot_track_a"), "prefer_open_contest_in_approx_90_days"))

\* payload.context.region || "Unknown"
regionOf(p) ==
    IF Truthy(Get(Get(p, "context"), "region"))
    THEN toStr(Get(Get(p, "context"), "region"))
    ELSE <<"U", "n", "k", "n", "o", "w", "n">>

\* Bug variant of incKeys: the total is incremented after the ballot counters.
incKeys_TotalLast(p) ==
    Keep(approveOf(p), "approve_interim_yes")
      \o Keep(preferOf(p), "prefer_open_contest_yes")
      \o Keep(approveOf(p) /\ preferOf(p), "both_selected")
      \o Keep(~approveOf(p) /\ ~preferOf(p), "neither_selected")
      \o <<"total_submissions_counted">>

\* Bug variant of incKeys: neither computed as !approve || !prefer.
incKeys_NeitherAsOr(p) ==
    <<"total_submissions_counted">>
      \o Keep(approveOf(p), "approve_interim_yes")
      \o Keep(preferOf(p), "prefer_open_contest_yes")
      \o Keep(approveOf(p) /\ preferOf(p), "both_selected")
      \o Keep(~approveOf(p) \/ ~preferOf(p), "neither_selected")

\* updateAggregates: the counters one submission increments, in statement order
incKeys(p) ==
    <<"total_submissions_counted">>
      \o Keep(approveOf(p), "approve_interim_yes")
      \o Keep(preferOf(p), "prefer_open_contest_yes")
      \o Keep(approveOf(p) /\ preferOf(p), "both_selected")
      \o Keep(~approveOf(p) /\ ~preferOf(p), "neither_selected")

\* ---------------------------------------------------------------- numbers
\* The arithmetic of handleResults is JavaScript's: every Number is an
\* IEEE-754 double and every operation rounds its exact result to the
\* nearest double, ties to even.  A non-negative double is held as the exact
\* value m * 2^e, its significand m (below 2^53 once rounded) as a
\* little-endian sequence of limbs, each below LimbBase; zero is <<>>.
LimbBase == 32768

RECURSIVE Trim(_)
\* Without its leading zero limbs.
Trim(a) ==
    IF a = <<>> THEN a
    ELSE IF a[Len(a)] = 0 THEN Trim(SubSeq(a, 1, Len(a) - 1)) ELSE a

\* An integer below LimbBase^2 as limbs.
Limbs(n) == Trim(<<n % LimbBase, n \div LimbBase>>)

RECURSIVE MulAdd(_, _, _)
\* a * k + c, for k and c below LimbBase
MulAdd(a, k, c) ==
    IF a = <<>>
    THEN IF c = 0 THEN <<>> ELSE <<c>>
    ELSE LET p == Head(a) * k + c
         IN  <<p % LimbBase>> \o MulAdd(Tail(a), k, p \div LimbBase)

RECURSIVE DivMod(_, _)
\* Quotient and remainder of a by d, for 0 < d < LimbBase
DivMod(a, d) ==
    IF a = <<>> THEN [q |-> <<>>, r |-> 0]
    ELSE LET hi == DivMod(Tail(a), d)
             cur == hi.r * LimbBase + Head(a)
         IN  [q |-> <<cur \div d>> \o hi.q, r |-> cur % d]

RECURSIVE BitLen(_)
BitLen(n) == IF n = 0 THEN 0 ELSE 1 + BitLen(n \div 2)

\* The number of significant bits of a trimmed limb sequence.
Bits(a) == IF a = <<>> THEN 0 ELSE 15 * (Len(a) - 1) + BitLen(a[Len(a)])

RECURSIVE ShiftLeft(_, _)
ShiftLeft(a, n) ==
    IF n >= 15 THEN <<0>> \o ShiftLeft(a, n - 15) ELSE Trim(MulAdd(a, 2 ^ n, 0))

RECURSIVE ShiftRight(_, _)
\* floor(a / 2^n)
ShiftRight(a, n) ==
    IF a = <<>> THEN a
    ELSE IF n >= 15 THEN ShiftRight(Tail(a), n - 15)
    ELSE Trim(DivMod(a, 2 ^ n).q)

RECURSIVE ToInt(_)
ToInt(a) == IF a = <<>> THEN 0 ELSE Head(a) + LimbBase * ToInt(Tail(a))

\* The double nearest to a * 2^e, ties to the even significand; at most 14
\* bits are dropped at a time.
RoundToDouble(a, e) ==
    LET s == Bits(a) - 53
    IN  IF s <= 0 THEN [m |-> a, e |-> e]
        ELSE LET d == DivMod(a, 2 ^ s)
                 q == Trim(d.q)
                 half == 2 ^ (s - 1)
                 up == d.r > half \/ (d.r = half /\ q[1] % 2 = 1)
             IN  [m |-> IF up THEN MulAdd(q, 1, 1) ELSE q, e |-> e + s]

\* c / t for integers 0 <= c and 0 < t below LimbBase: the quotient is
\* carried to 55 or 56 bits and a sticky bit records a nonzero remainder.
NumDiv(c, t) ==
    IF c = 0 THEN [m |-> <<>>, e |-> 0]
    ELSE LET k == 55 - BitLen(c) + BitLen(t)
             d == DivMod(ShiftLeft(Limbs(c), k), t)
             sticky == IF d.r = 0 THEN 0 ELSE 1
         IN  RoundToDouble(MulAdd(Trim(d.q), 2, sticky), 0 - k - 1)

\* x * k for a double x and an integer 0 < k below 1024
NumMul(x, k) == RoundToDouble(Trim(MulAdd(x.m, k, 0)), x.e)

\* Math.round(x) for a double 0 <= x: floor(x + 1/2), computed exactly;
\* the result is an integer.
MathRound(x) ==
    IF x.e >= 0 THEN ToInt(ShiftLeft(x.m, x.e))
    ELSE (ToInt(ShiftRight(x.m, 0 - x.e - 1)) + 1) \div 2

\* A Number with one decimal, n / 10 for an integer n: the double nearest to
\* n / 10, which JSON.stringify prints as that decimal.
Tenths(n) == [t |-> "number", tenths |-> n]

\* Bug variant of round1: the digits after the first decimal are cut off
\* (Math.floor).
round1_Truncates(x) == Tenths(ToInt(ShiftRight(NumMul(x, 10).m, 0 - NumMul(x, 10).e)))

\* round1: Math.round(x * 10) / 10
round1(x) == Tenths(MathRound(NumMul(x, 10)))

\* handleResults: total ? round1((count / total) * 100) : null
ratePercent(count, total) ==
    IF total = 0 THEN Null ELSE round1(NumMul(NumDiv(count, total), 100))

\* part_000's handleResults: total ? Math.round((count / total) * 1000) / 10 : null
ratePercent_part000(count, total) ==
    IF total = 0 THEN Null ELSE Tenths(MathRound(NumMul(NumDiv(count, total), 1000)))

\* ---------------------------------------------------------------- results
\* agg.<key> || 0 on the rows of SELECT k, v FROM aggregates
aggValue(agg, key) == IF key \in DOMAIN agg THEN agg[key] ELSE 0

\* handleResults: the "ballot" object of the response.
ballotOf(agg) ==
    LET total == aggValue(agg, "total_submissions_counted")
    IN  [total_submissions_counted |-> total,
         approve_interim_yes |-> aggValue(agg, "approve_interim_yes"),
         prefer_open_contest_yes |-> aggValue(agg, "prefer_open_contest_yes"),
         both_selected |-> aggValue(agg, "both_selected"),
         neither_selected |-> aggValue(agg, "neither_selected"),
         approval_rate_percent |->
            ratePercent(aggValue(agg, "approve_interim_yes"), total),
         prefer_open_rate_percent |->
            ratePercent(aggValue(agg, "prefer_open_contest_yes"), total)]

\* handleResults: "regional_balance", one entry per row of region_counts.
\* The SELECT has no ORDER BY; the entries are held by region.
regionalBalanceOf(rc) ==
    [g \in DOMAIN rc |->
        [submissions_counted |-> rc[g].total,
         approve_rate_percent |-> ratePercent(rc[g].approve_yes, rc[g].total)]]

\* The same two parts of the response as part_000's handleResults builds them.
ballotOf_part000(agg) ==
    LET total == aggValue(agg, "total_submissions_counted")
    IN  [total_submissions_counted |-> total,
         approve_interim_yes |-> aggValue(agg, "approve_interim_yes"),
         prefer_open_contest_yes |-> aggValue(agg, "prefer_open_contest_yes"),
         both_selected |-> aggValue(agg, "both_selected"),
         neither_selected |-> aggValue(agg, "neither_selected"),
         approval_rate_percent |->
            ratePercent_part000(aggValue(agg, "approve_interim_yes"), total),
         prefer_open_rate_percent |->
            ratePercent_part000(aggValue(agg, "prefer_open_contest_yes"), total)]

regionalBalanceOf_part000(rc) ==
    [g \in DOMAIN rc |->
        [submissions_counted |-> rc[g].total,
         approve_rate_percent |->
            ratePercent_part000(rc[g].approve_yes, rc[g].total)]]

\* ----------------------------------------------------------- storage layer
\* inc: INSERT INTO aggregates (k, v) VALUES (?, 1)
\*      ON CONFLICT(k) DO UPDATE SET v = v + 1
inc(agg, key) ==
    IF key \in DOMAIN agg
    THEN [agg EXCEPT ![key] = @ + 1]
    ELSE agg @@ (key :> 1)

\* Bug variant of regionEnsure: INSERT OR REPLACE, an existing row is
\* replaced by a fresh (0, 0) row.
regionEnsure_Replaces(rc, region) ==
    [g \in DOMAIN rc \cup {region} |->
        IF g = region THEN [total |-> 0, approve_yes |-> 0] ELSE rc[g]]

\* Bug variant of regionEnsure: the row is seeded as (1, 0), the way the
\* single-statement upsert seeds it, and the UPDATE that follows counts the
\* first submission of a region a second time.
regionEnsure_SeedsOne(rc, region) ==
    IF region \in DOMAIN rc
    THEN rc
    ELSE rc @@ (region :> [total |-> 1, approve_yes |-> 0])

\* INSERT INTO region_counts (region, total, approve_yes) VALUES (?, 0, 0)
\*      ON CONFLICT(region) DO NOTHING
regionEnsure(rc, region) ==
    IF region \in DOMAIN rc
    THEN rc
    ELSE rc @@ (region :> [total |-> 0, approve_yes |-> 0])

\* UPDATE region_counts SET total = total + 1, approve_yes = approve_yes + ?
\*      WHERE region = ?      (no row matches: nothing is updated)
regionUpdate(rc, region, approve) ==
    IF region \in DOMAIN rc
    THEN [rc EXCEPT ![region] =
            [total |-> @.total + 1,
             approve_yes |-> @.approve_yes + (IF approve THEN 1 ELSE 0)]]
    ELSE rc

\* Bug variant of selectReceipt: the lookup compares the wrong column
\* (WHERE receipt_id = ?), so a dedupe key never matches.
selectReceipt_WrongColumn(rows, dedupeKey) ==
    LET hits == {i \in 1..Len(rows) : rows[i].receipt_id = dedupeKey}
    IN  IF hits = {} THEN Undef
        ELSE rows[CHOOSE i \in hits : \A j \in hits : i <= j].receipt_id

\* SELECT receipt_id FROM submissions WHERE dedupe_key = ? LIMIT 1
\* The first matching row's receipt_id in table order, Undef when none.
selectReceipt(rows, dedupeKey) ==
    LET hits == {i \in 1..Len(rows) : rows[i].dedupe_key = dedupeKey}
    IN  IF hits = {} THEN Undef
        ELSE rows[CHOOSE i \in hits : \A j \in hits : i <= j].receipt_id

\* Bug variant of insertAllowed: the table is created without its PRIMARY KEY
\* and UNIQUE constraints, so every INSERT is accepted.
insertAllowed_NoConstraints(rows, receiptId, dedupeKey) ==
    TRUE

\* ensureSchema: receipt_id TEXT PRIMARY KEY, dedupe_key TEXT UNIQUE.
\* TRUE when an INSERT of (receiptId, dedupeKey) violates neither constraint.
insertAllowed(rows, receiptId, dedupeKey) ==
    \A i \in 1..Len(rows) :
        rows[i].receipt_id # receiptId /\ rows[i].dedupe_key # dedupeKey

\* ------------------------------------------------------------ request pool
VoterIds == {<<"a">>, <<"b">>}

Ballot(a, b) ==
    Obj([approve_interim_masculine_regent |-> Bool(a),
         prefer_open_contest_in_approx_90_days |-> Bool(b)])

Context(region, country) ==
    Obj([region |-> region, country_or_territory |-> country])

Payload(sv, cu, vid, ctx, bal) ==
    Obj([schema_version |-> sv, created_utc |-> cu, voter_id |-> vid,
         context |-> ctx, ballot_track_a |-> bal])

\* Well-formed submissions: each voter may send any of four (region, ballot)
\* combinations, which cover both regions and all four ballots.
Choices ==
    {<<<<"C", "A">>, TRUE, TRUE>>, <<<<"C", "A">>, FALSE, FALSE>>,
     <<<<"N", "Y">>, TRUE, FALSE>>, <<<<"N", "Y">>, FALSE, TRUE>>}

ValidPayloads ==
    {Payload(Str(<<"1">>), Str(<<"t">>), Str(v), Context(Str(c[1]), Str(<<"U", "S">>)),
             Ballot(c[2], c[3])) :
        v \in VoterIds, c \in Choices}

\* A body request.json() rejects.
BadBody == [t |-> "unparseable"]

\* Bodies that parse and fail validation: no context.region; nothing but a
\* ballot; a JSON null.
InvalidPayloads ==
    {Payload(Str(<<"1">>), Str(<<"t">>), Str(<<"a">>),
             Context(Undef, Str(<<"U", "S">>)), Ballot(TRUE, FALSE)),
     Payload(Undef, Undef, Undef, Undef, Ballot(TRUE, TRUE)),
     Null}

Bodies == ValidPayloads \cup InvalidPayloads \cup {BadBody}

\* ------------------------------------------------------------------ state
NoResp ==
    [status |-> 0, ok |-> FALSE, error |-> "", counted |-> FALSE,
     receipt_id |-> Undef, details |-> <<>>]

Idle ==
    [pc |-> "idle", payload |-> Undef, dedupeKey |-> Undef, receiptId |-> Undef,
     todo |-> <<>>, resp |-> NoResp, wrote |-> {}]

\* No results request has been made.
NoResults == [pc |-> "idle", ballot |-> Undef, regional_balance |-> Undef]

\* part_000 before any request, on a database in which the three tables
\* exist and are empty (part_000 has no ensureSchema and never creates them).
AltEmpty ==
    [submissions |-> <<>>, aggregates |-> [k \in {} |-> 0],
     region_counts |-> [g \in {} |-> 0],
     resp |-> [r \in Reqs |-> NoResp], report |-> Undef]

Init ==
    /\ submissions = <<>>
    /\ aggregates = [k \in {} |-> 0]
    /\ region_counts = [g \in {} |-> 0]
    /\ reqs = [r \in Reqs |-> Idle]
    /\ results = NoResults
    /\ alt = AltEmpty

InFlight(r) ==
    reqs[r].pc \in {"select", "insert", "agg", "region_insert", "region_update"}

Respond(r, resp) ==
    reqs' = [reqs EXCEPT ![r].pc = "done", ![r].resp = resp]

\* ---------------------------------------------------------------- actions
\* Bug variant of Receive: the raw submission is stored before the payload is
\* validated, so a rejected payload leaves a row behind.
Receive_StoresBeforeValidating(r, body) ==
    /\ reqs[r].pc = "idle"
    /\ \A q \in Reqs : q < r => reqs[q].pc # "idle"
    /\ IF body = BadBody
       THEN /\ reqs' = [reqs EXCEPT ![r].pc = "done", ![r].payload = body,
                        ![r].resp = [NoResp EXCEPT !.status = 400, !.error = "BAD_JSON"]]
            /\ UNCHANGED submissions
       ELSE IF validatePayload(body) # <<>>
       THEN /\ submissions' = Append(submissions,
                    [receipt_id |-> receiptIdOf(dedupeKeyOf(body)),
                     dedupe_key |-> dedupeKeyOf(body),
                     region |-> regionOf(body),
                     payload_json |-> body])
            /\ reqs' = [reqs EXCEPT ![r].pc = "done", ![r].payload = body,
                        ![r].wrote = @ \cup {"submissions"},
                        ![r].resp = [NoResp EXCEPT !.status = 422,
                                                   !.error = "VALIDATION_FAILED",
                                                   !.details = validatePayload(body)]]
       ELSE /\ reqs' = [reqs EXCEPT ![r].pc = "select", ![r].payload = body,
                                    ![r].dedupeKey = dedupeKeyOf(body)]
            /\ UNCHANGED submissions
    /\ UNCHANGED <<aggregates, region_counts, results, alt>>

\* fetch routes POST /api/submit to handleSubmit, which runs up to its first
\* storage statement: request.json(), validatePayload, the dedupe key,
\* ensureSchema (CREATE TABLE IF NOT EXISTS: no effect on the rows).
Receive(r, body) ==
    /\ reqs[r].pc = "idle"
    /\ \A q \in Reqs : q < r => reqs[q].pc # "idle"
    /\ IF body = BadBody
       THEN reqs' = [reqs EXCEPT ![r].pc = "done", ![r].payload = body,
                        ![r].resp = [NoResp EXCEPT !.status = 400, !.error = "BAD_JSON"]]
       ELSE IF validatePayload(body) # <<>>
       THEN reqs' = [reqs EXCEPT ![r].pc = "done", ![r].payload = body,
                        ![r].resp = [NoResp EXCEPT !.status = 422,
                                                   !.error = "VALIDATION_FAILED",
                                                   !.details = validatePayload(body)]]
       ELSE reqs' = [reqs EXCEPT ![r].pc = "select", ![r].payload = body,
                                 ![r].dedupeKey = dedupeKeyOf(body)]
    /\ UNCHANGED <<submissions, aggregates, region_counts, results, alt>>

\* Bug variant of SelectStep: the duplicate branch counts the ballot again.
SelectStep_CountsDuplicate(r) ==
    /\ reqs[r].pc = "select"
    /\ LET existing == selectReceipt(submissions, reqs[r].dedupeKey)
       IN  IF Truthy(existing)
           THEN /\ aggregates' = inc(aggregates, "total_submissions_counted")
                /\ reqs' = [reqs EXCEPT ![r].pc = "done",
                                ![r].wrote = @ \cup {"aggregates"},
                                ![r].resp = [NoResp EXCEPT !.status = 200, !.ok = TRUE,
                                                           !.receipt_id = existing]]
           ELSE /\ reqs' = [reqs EXCEPT ![r].pc = "insert",
                                ![r].receiptId = receiptIdOf(reqs[r].dedupeKey)]
                /\ UNCHANGED aggregates
    /\ UNCHANGED <<submissions, region_counts, results, alt>>

\* The duplicate check: the SELECT, and the DUPLICATE response when it finds a row.
SelectStep(r) ==
    /\ reqs[r].pc = "select"
    /\ LET existing == selectReceipt(submissions, reqs[r].dedupeKey)
       IN  IF Truthy(existing)
           THEN Respond(r, [NoResp EXCEPT !.status = 200, !.ok = TRUE,
                                          !.receipt_id = existing])
           ELSE reqs' = [reqs EXCEPT ![r].pc = "insert",
                                     ![r].receiptId = receiptIdOf(reqs[r].dedupeKey)]
    /\ UNCHANGED <<submissions, aggregates, region_counts, results, alt>>

\* Bug variant of InsertStep: INSERT OR IGNORE, a refused row is skipped
\* silently and the request goes on to updateAggregates.
InsertStep_OrIgnore(r) ==
    /\ reqs[r].pc = "insert"
    /\ IF insertAllowed(submissions, reqs[r].receiptId, reqs[r].dedupeKey)
       THEN /\ submissions' = Append(submissions,
                    [receipt_id |-> reqs[r].receiptId,
                     dedupe_key |-> reqs[r].dedupeKey,
                     region |-> regionOf(reqs[r].payload),
                     payload_json |-> reqs[r].payload])
            /\ reqs' = [reqs EXCEPT ![r].pc = "agg",
                                    ![r].todo = incKeys(reqs[r].payload),
                                    ![r].wrote = @ \cup {"submissions"}]
       ELSE /\ reqs' = [reqs EXCEPT ![r].pc = "agg",
                                    ![r].todo = incKeys(reqs[r].payload)]
            /\ UNCHANGED submissions
    /\ UNCHANGED <<aggregates, region_counts, results, alt>>

\* INSERT INTO submissions.  A constraint violation throws; fetch's catch
\* turns the exception into the 500 UNHANDLED response.
InsertStep(r) ==
    /\ reqs[r].pc = "insert"
    /\ IF insertAllowed(submissions, reqs[r].receiptId, reqs[r].dedupeKey)
       THEN /\ submissions' = Append(submissions,
                    [receipt_id |-> reqs[r].receiptId,
                     dedupe_key |-> reqs[r].dedupeKey,
                     region |-> regionOf(reqs[r].payload),
                     payload_json |-> reqs[r].payload])
            /\ reqs' = [reqs EXCEPT ![r].pc = "agg",
                                    ![r].todo = incKeys(reqs[r].payload),
                                    ![r].wrote = @ \cup {"submissions"}]
       ELSE /\ Respond(r, [NoResp EXCEPT !.status = 500, !.error = "UNHANDLED"])
            /\ UNCHANGED submissions
    /\ UNCHANGED <<aggregates, region_counts, results, alt>>

\* updateAggregates: the next await inc(DB, key).
IncStep(r) ==
    /\ reqs[r].pc = "agg"
    /\ aggregates' = inc(aggregates, Head(reqs[r].todo))
    /\ reqs' = [reqs EXCEPT ![r].todo = Tail(@),
                            ![r].pc = IF Len(reqs[r].todo) = 1 THEN "region_insert" ELSE "agg",
                            ![r].wrote = @ \cup {"aggregates"}]
    /\ UNCHANGED <<submissions, region_counts, results, alt>>

\* updateAggregates: "Ensure row exists".
RegionInsertStep(r) ==
    /\ reqs[r].pc = "region_insert"
    /\ region_counts' = regionEnsure(region_counts, regionOf(reqs[r].payload))
    /\ reqs' = [reqs EXCEPT ![r].pc = "region_update",
                            ![r].wrote = @ \cup {"region_counts"}]
    /\ UNCHANGED <<submissions, aggregates, results, alt>>

\* updateAggregates: "Update region", then handleSubmit's counted response.
RegionUpdateStep(r) ==
    /\ reqs[r].pc = "region_update"
    /\ region_counts' = regionUpdate(region_counts, regionOf(reqs[r].payload),
                                     approveOf(reqs[r].payload))
    /\ reqs' = [reqs EXCEPT ![r].pc = "done", ![r].wrote = @ \cup {"region_counts"},
                            ![r].resp = [NoResp EXCEPT !.status = 200, !.ok = TRUE,
                                                       !.counted = TRUE,
                                                       !.receipt_id = reqs[r].receiptId]]
    /\ UNCHANGED <<submissions, aggregates, results, alt>>

\* The request dies at an await: the storage call rejects, the Worker is
\* evicted, or the caller disconnects.  Nothing is undone.
Fail(r) ==
    /\ InFlight(r)
    /\ reqs' = [reqs EXCEPT ![r].pc = "failed", ![r].todo = <<>>]
    /\ UNCHANGED <<submissions, aggregates, region_counts, results, alt>>

\* Bug variant of ResultsAggStep: the aggregate rows that do not exist yet
\* are created with value 0 while the report is assembled.
ResultsAggStep_SeedsRows ==
    /\ results.pc = "idle"
    /\ aggregates' =
            [k \in DOMAIN aggregates \cup {"total_submissions_counted"} |->
                aggValue(aggregates, k)]
    /\ results' = [results EXCEPT !.pc = "regions", !.ballot = ballotOf(aggregates)]
    /\ UNCHANGED <<submissions, region_counts, reqs, alt>>

\* fetch routes GET /api/results to handleResults: ensureSchema, then
\* SELECT k, v FROM aggregates and the ballot totals and rates.
ResultsAggStep ==
    /\ results.pc = "idle"
    /\ results' = [results EXCEPT !.pc = "regions", !.ballot = ballotOf(aggregates)]
    /\ UNCHANGED <<submissions, aggregates, region_counts, reqs, alt>>

\* handleResults: SELECT region, total, approve_yes FROM region_counts, the
\* regional balance, and the response.
ResultsRegionStep ==
    /\ results.pc = "regions"
    /\ results' = [results EXCEPT !.pc = "done",
                        !.regional_balance = regionalBalanceOf(region_counts)]
    /\ UNCHANGED <<submissions, aggregates, region_counts, reqs, alt>>

Next ==
    \E r \in Reqs :
        \/ \E body \in Bodies : Receive(r, body)
        \/ SelectStep(r)
        \/ InsertStep(r)
        \/ IncStep(r)
        \/ RegionInsertStep(r)
        \/ RegionUpdateStep(r)
        \/ Fail(r)

Spec == Init /\ [][Next]_vars

\* The results report on its own, over a database that holds up to MaxTotal
\* counted submissions: respondents v1 .. v<total> of one region, the first
\* `approve` of them approving, none preferring the open contest.
MaxTotal == 80

CountedPayload(i, approve) ==
    Payload(Str(<<"1">>), Str(<<"t">>), Str(<<"v">> \o Decimal(i)),
            Context(Str(<<"C", "A">>), Str(<<"U", "S">>)), Ballot(i <= approve, FALSE))

CountedRows(total, approve) ==
    [i \in 1..total |->
        [receipt_id |-> receiptIdOf(dedupeKeyOf(CountedPayload(i, approve))),
         dedupe_key |-> dedupeKeyOf(CountedPayload(i, approve)),
         region |-> regionOf(CountedPayload(i, approve)),
         payload_json |-> CountedPayload(i, approve)]]

\* The rows with a nonzero count, as inc creates them.
CountedAggregates(total, approve) ==
    LET counts == [total_submissions_counted |-> total,
                   approve_interim_yes |-> approve,
                   neither_selected |-> total - approve]
    IN  [k \in {x \in DOMAIN counts : counts[x] > 0} |-> counts[k]]

CountedRegions(total, approve) ==
    IF total = 0 THEN [g \in {} |-> 0]
    ELSE (<<"C", "A">> :> [total |-> total, approve_yes |-> approve])

InitRates ==
    /\ \E total \in 0..MaxTotal : \E approve \in 0..total :
            /\ submissions = CountedRows(total, approve)
            /\ aggregates = CountedAggregates(total, approve)
            /\ region_counts = CountedRegions(total, approve)
    /\ reqs = [r \in Reqs |-> Idle]
    /\ results = NoResults
    /\ alt = AltEmpty

NextRates == ResultsAggStep \/ ResultsRegionStep

SpecRates == InitRates /\ [][NextRates]_vars

\* Submit requests interleaved with one results request.  The submissions
\* come from two respondents, share a region or not, and cover three ballots.
ResultsBodies ==
    {Payload(Str(<<"1">>), Str(<<"t">>), Str(c[1]),
             Context(Str(c[2]), Str(<<"U", "S">>)), Ballot(c[3], c[4])) :
        c \in {<<<<"a">>, <<"C", "A">>, TRUE, TRUE>>,
                <<<<"b">>, <<"C", "A">>, FALSE, FALSE>>,
                <<<<"b">>, <<"N", "Y">>, TRUE, FALSE>>}}

NextResults ==
    \/ \E r \in Reqs :
        \/ \E body \in ResultsBodies : Receive(r, body)
        \/ SelectStep(r)
        \/ InsertStep(r)
        \/ IncStep(r)
        \/ RegionInsertStep(r)
        \/ RegionUpdateStep(r)
        \/ Fail(r)
    \/ ResultsAggStep
    \/ ResultsRegionStep

SpecResults == Init /\ [][NextResults]_vars

\* Requests issued one after another, each running to its response.
ReceiveSeq(r, body) ==
    /\ \A q \in Reqs : ~InFlight(q)
    /\ Receive(r, body)

NextSeq ==
    \E r \in Reqs :
        \/ \E body \in Bodies : ReceiveSeq(r, body)
        \/ SelectStep(r)
        \/ InsertStep(r)
        \/ IncStep(r)
        \/ RegionInsertStep(r)
        \/ RegionUpdateStep(r)

SpecSeq == Init /\ [][NextSeq]_vars

\* The validator on its own: one request, its body drawn from every shape of
\* payload, taken up to handleSubmit's accept/reject decision.
FieldValues(s) == {Undef, Str(<<>>), Str(s)}

ContextValues ==
    {Undef, Null, Str(<<"x">>), Arr}
        \cup {Context(g, c) : g \in FieldValues(<<"C", "A">>), c \in FieldValues(<<"U", "S">>)}

ValidationPool ==
    {Null, Num(0), Num(7), Str(<<>>), Str(<<"x">>), Bool(FALSE), Bool(TRUE), Arr}
        \cup {Payload(sv, cu, vid, ctx, Ballot(TRUE, FALSE)) :
                sv \in FieldValues(<<"1">>), cu \in FieldValues(<<"t">>),
                vid \in FieldValues(<<"a">>), ctx \in ContextValues}

NextValidate == \E body \in ValidationPool : Receive(1, body)

SpecValidate == Init /\ [][NextValidate]_vars

\* ===================================================================
\* Reading the state
\* ===================================================================
\* handleResults: agg.<key> || 0
readAgg(key) == IF key \in DOMAIN aggregates THEN aggregates[key] ELSE 0

\* handleResults: the region_counts row of a region, zero when there is none
readRegion(region) ==
    IF region \in DOMAIN region_counts
    THEN region_counts[region]
    ELSE [total |-> 0, approve_yes |-> 0]

RowIdx == 1..Len(submissions)
RowsWithKey(k) == {i \in RowIdx : submissions[i].dedupe_key = k}
RowsInRegion(g) == {i \in RowIdx : submissions[i].region = g}
StoredKeys == {submissions[i].dedupe_key : i \in RowIdx}
StoredRegions == {submissions[i].region : i \in RowIdx}
Range(seq) == {seq[i] : i \in DOMAIN seq}

Started(r) == reqs[r].pc # "idle"
\* No request is part-way through.
Quiescent == \A r \in Reqs : ~InFlight(r)
\* Every request that started has run to its response.
AllCompleted == \A r \in Reqs : reqs[r].pc \in {"idle", "done"}
\* The request carries a body that parses and validates.
ValidReq(r) ==
    /\ Started(r)
    /\ reqs[r].payload # BadBody
    /\ validatePayload(reqs[r].payload) = <<>>
SamePair(r, q) ==
    /\ Get(reqs[r].payload, "voter_id") = Get(reqs[q].payload, "voter_id")
    /\ Get(reqs[r].payload, "schema_version") = Get(reqs[q].payload, "schema_version")
LedgerTables == {"aggregates", "region_counts"}
\* The request has entered updateAggregates.
LedgerRun(r) ==
    \/ reqs[r].pc \in {"agg", "region_insert", "region_update"}
    \/ reqs[r].wrote \cap LedgerTables # {}
IsDuplicateResp(r) ==
    /\ reqs[r].pc = "done"
    /\ reqs[r].resp.status = 200 /\ reqs[r].resp.ok /\ ~reqs[r].resp.counted
IsCountedResp(r) ==
    /\ reqs[r].pc = "done"
    /\ reqs[r].resp.status = 200 /\ reqs[r].resp.ok /\ reqs[r].resp.counted

\* The history field wrote misses no write: a step that changes a table is a
\* step of a request that has the table in wrote afterwards.
WroteRecordsEveryWrite ==
    [][/\ submissions' # submissions =>
            \E r \in Reqs : reqs'[r] # reqs[r] /\ "submissions" \in reqs'[r].wrote
       /\ aggregates' # aggregates =>
            \E r \in Reqs : reqs'[r] # reqs[r] /\ "aggregates" \in reqs'[r].wrote
       /\ region_counts' # region_counts =>
            \E r \in Reqs : reqs'[r] # reqs[r] /\ "region_counts" \in reqs'[r].wrote]_vars

\* ===================================================================
\* Claims
\* ===================================================================

\* C1 (SpecSeq): when the requests that carry one (voter_id, schema_version)
\* have all run to completion, one after another, the store holds exactly one
\* row for their dedupe key, exactly one of them was answered counted=true,
\* every other one was answered 200 ok=true counted=false with the counted
\* response's receipt_id, and total_submissions_counted has gone up by one
\* per distinct pair.
C1_IdempotentCounting ==
    Quiescent =>
        /\ \A r \in Reqs : ValidReq(r) =>
              LET G == {q \in Reqs : ValidReq(q) /\ SamePair(r, q)}
              IN  /\ Cardinality(RowsWithKey(dedupeKeyOf(reqs[r].payload))) = 1
                  /\ \E c \in G :
                        /\ IsCountedResp(c)
                        /\ \A q \in G \ {c} :
                              /\ IsDuplicateResp(q)
                              /\ reqs[q].resp.receipt_id = reqs[c].resp.receipt_id
        /\ readAgg("total_submissions_counted")
             = Cardinality({<<Get(reqs[r].payload, "voter_id"),
                              Get(reqs[r].payload, "schema_version")>> :
                                r \in {q \in Reqs : ValidReq(q)}})

\* C1 witness: every request has completed, all for one voter, the later
\* ones as duplicates, one of them with another region than the counted one.
C1_Witness ==
    /\ \A r \in Reqs : reqs[r].pc = "done" /\ ValidReq(r) /\ SamePair(r, 1)
    /\ IsCountedResp(1)
    /\ \E q \in Reqs : IsDuplicateResp(q) /\ regionOf(reqs[q].payload) # regionOf(reqs[1].payload)

\* C2: in every reachable state no two Submission rows share a dedupe key,
\* at most one of the requests that derive a key has entered updateAggregates,
\* and total_submissions_counted does not exceed the number of stored keys.
C2_AtMostOnceCounting ==
    /\ \A r \in Reqs : Started(r) /\ Truthy(reqs[r].dedupeKey) =>
          /\ Cardinality(RowsWithKey(reqs[r].dedupeKey)) <= 1
          /\ Cardinality({q \in Reqs : reqs[q].dedupeKey = reqs[r].dedupeKey
                                          /\ LedgerRun(q)}) <= 1
    /\ readAgg("total_submissions_counted") <= Cardinality(StoredKeys)

\* C2 witness: two requests with one key both saw the key absent; one has
\* inserted and counted, the other's INSERT was refused.
C2_Witness ==
    \E r, q \in Reqs :
        /\ r # q /\ reqs[r].dedupeKey = reqs[q].dedupeKey
        /\ IsCountedResp(r)
        /\ reqs[q].pc = "done" /\ reqs[q].resp.error = "UNHANDLED"

\* C3: a request with a valid payload never ends in an error response: it is
\* answered 200 ok=true, counted or duplicate, also when requests with its
\* dedupe key run concurrently.
C3_DuplicateNeverError ==
    \A r \in Reqs : ValidReq(r) /\ reqs[r].pc = "done" =>
        reqs[r].resp.status = 200 /\ reqs[r].resp.ok

\* C4: whenever no request is part-way through, total_submissions_counted
\* equals the number of distinct dedupe keys in the Submission Store.
C4_StoreLedgerInvariant ==
    Quiescent => readAgg("total_submissions_counted") = Cardinality(StoredKeys)

\* C5: whenever no request is part-way through, every region's counter has
\* total = the number of rows stored with that region and approve_yes = the
\* number of those rows whose payload approves, and only regions with a
\* stored row have a counter row.
C5_PerRegionInvariant ==
    Quiescent =>
        /\ \A g \in StoredRegions \cup DOMAIN region_counts :
              /\ readRegion(g).total = Cardinality(RowsInRegion(g))
              /\ readRegion(g).approve_yes
                   = Cardinality({i \in RowsInRegion(g) : approveOf(submissions[i].payload_json)})
        /\ DOMAIN region_counts \subseteq StoredRegions

\* C6: in every reachable state, with requests in flight and after failures
\* at any step, total_submissions_counted <= the number of Submission rows
\* and each region counter's total <= the number of rows with that region;
\* a request that has written the ledger has inserted its row before.
C6_NeverOverCount ==
    /\ readAgg("total_submissions_counted") <= Len(submissions)
    /\ \A g \in DOMAIN region_counts :
          region_counts[g].total <= Cardinality(RowsInRegion(g))
    /\ \A r \in Reqs : LedgerRun(r) => "submissions" \in reqs[r].wrote

\* C6 witness: a request failed after its INSERT with the ledger behind the
\* store, while another request is inside updateAggregates.
C6_Witness ==
    \E r, q \in Reqs :
        /\ reqs[r].pc = "failed" /\ "submissions" \in reqs[r].wrote
        /\ reqs[q].pc = "region_update"
        /\ readAgg("total_submissions_counted") < Len(submissions)

\* C7: a request answered as a duplicate has written no table between its
\* start and its response, whatever ballot and region its payload carries.
C7_DuplicateWritesNothing ==
    \A r \in Reqs : IsDuplicateResp(r) => reqs[r].wrote = {}

\* C7 witness: a duplicate response to a payload whose region and ballot
\* differ from those of the stored row with its key.
C7_Witness ==
    \E r \in Reqs : \E i \in RowIdx :
        /\ IsDuplicateResp(r)
        /\ submissions[i].dedupe_key = reqs[r].dedupeKey
        /\ submissions[i].region # regionOf(reqs[r].payload)
        /\ approveOf(submissions[i].payload_json) # approveOf(reqs[r].payload)
        /\ readAgg("total_submissions_counted") = 1

\* C8: a request answered BAD_JSON (400) or VALIDATION_FAILED (422) has
\* written no table, and no Submission row holds a payload that fails
\* validation.
C8_RejectedWritesNothing ==
    /\ \A r \in Reqs :
          reqs[r].pc = "done" /\ reqs[r].resp.error \in {"BAD_JSON", "VALIDATION_FAILED"} =>
              /\ reqs[r].wrote = {}
              /\ reqs[r].resp.status = (IF reqs[r].payload = BadBody THEN 400 ELSE 422)
    /\ \A r \in Reqs : Started(r) /\ ~ValidReq(r) =>
          /\ reqs[r].pc = "done"
          /\ reqs[r].resp.error \in {"BAD_JSON", "VALIDATION_FAILED"}
    /\ \A i \in RowIdx : validatePayload(submissions[i].payload_json) = <<>>

\* C8 witness: one request was rejected with 422 while the store and the
\* ledger hold another request's submission.
C8_Witness ==
    \E r \in Reqs :
        /\ reqs[r].pc = "done" /\ reqs[r].resp.error = "VALIDATION_FAILED"
        /\ Len(submissions) = 1
        /\ readAgg("total_submissions_counted") = 1

\* The six required items, the message for each, and whether a payload
\* lacks it (absent, or present with a falsy value such as "").
Items ==
    {"schema_version", "created_utc", "voter_id", "context", "context.region",
     "context.country_or_territory"}
ItemMsg(item) ==
    CASE item = "schema_version" -> "Missing schema_version"
      [] item = "created_utc" -> "Missing created_utc"
      [] item = "voter_id" -> "Missing voter_id"
      [] item = "context" -> "Missing context object"
      [] item = "context.region" -> "Missing context.region"
      [] item = "context.country_or_territory" -> "Missing context.country_or_territory"
\* An object in the JavaScript sense: a JSON object or array.
IsJsObject(v) == v.t \in {"object", "array"}
Lacks(p, item) ==
    CASE item = "context" -> ~IsJsObject(Get(p, "context"))
      [] item = "context.region" -> ~Truthy(Get(Get(p, "context"), "region"))
      [] item = "context.country_or_territory" ->
            ~Truthy(Get(Get(p, "context"), "country_or_territory"))
      [] OTHER -> ~Truthy(Get(p, item))
MissingItems(p) == {item \in Items : Lacks(p, item)}

\* The request's validation verdict: the error list handleSubmit answered
\* with, empty when it went on to deduplication.
Errors(r) == IF reqs[r].pc = "done" THEN reqs[r].resp.details ELSE <<>>
Proceeded(r) == reqs[r].pc = "select"
Validated(r) == Started(r) /\ reqs[r].payload # BadBody

\* C9, as claimed (SpecValidate): for every payload the error list holds a
\* message for each required item the payload lacks, it is empty iff the
\* payload lacks none, and the request proceeds exactly when it is empty.
C9_EveryMissingItemReported ==
    \A r \in Reqs : Validated(r) =>
        /\ \A item \in MissingItems(reqs[r].payload) : ItemMsg(item) \in Range(Errors(r))
        /\ Errors(r) = <<>> <=> MissingItems(reqs[r].payload) = {}
        /\ Proceeded(r) <=> Errors(r) = <<>>

\* C9, amended (SpecValidate): for a payload that is a JSON object or array
\* the error list holds exactly one message per required item the payload
\* lacks and no other; for a payload that is null or a primitive it is the
\* single message "Payload must be JSON object"; it is empty iff the payload
\* is an object lacking none of the six, and the request proceeds to
\* deduplication exactly when it is empty.  part_000's validate reports the
\* same items except "context object", for every payload, and is empty on
\* the same payloads.
C9_ValidationComplete ==
    \A r \in Reqs : Validated(r) =>
        LET p == reqs[r].payload
        IN  /\ IsJsObject(p) =>
                  /\ Range(Errors(r)) = {ItemMsg(item) : item \in MissingItems(p)}
                  /\ Len(Errors(r)) = Cardinality(MissingItems(p))
            /\ ~IsJsObject(p) => Errors(r) = <<"Payload must be JSON object">>
            /\ Errors(r) = <<>> <=> IsJsObject(p) /\ MissingItems(p) = {}
            /\ Proceeded(r) <=> Errors(r) = <<>>
            /\ reqs[r].pc = "done" => reqs[r].resp.status = 422
            /\ Range(validate(p)) = {ItemMsg(item) : item \in MissingItems(p) \ {"context"}}
            /\ Len(validate(p)) = Cardinality(MissingItems(p) \ {"context"})
            /\ validate(p) = <<>> <=> validatePayload(p) = <<>>

\* C9 witness: a JSON object lacking all six items was answered with six
\* messages.
C9_Witness ==
    \E r \in Reqs :
        /\ Validated(r) /\ reqs[r].payload.t = "object"
        /\ MissingItems(reqs[r].payload) = Items
        /\ Len(Errors(r)) = 6 /\ reqs[r].resp.status = 422

\* C10: when every started request has completed, both_selected +
\* neither_selected + the number of stored submissions with exactly one of
\* approve/prefer true = total_submissions_counted, and that number is
\* approve_interim_yes + prefer_open_contest_yes - 2 * both_selected.
C10_BucketConsistency ==
    AllCompleted =>
        LET one == Cardinality({i \in RowIdx :
                        approveOf(submissions[i].payload_json)
                            # preferOf(submissions[i].payload_json)})
        IN  /\ readAgg("both_selected") + readAgg("neither_selected") + one
                  = readAgg("total_submissions_counted")
            /\ one = readAgg("approve_interim_yes") + readAgg("prefer_open_contest_yes")
                        - 2 * readAgg("both_selected")
            /\ readAgg("both_selected")
                  = Cardinality({i \in RowIdx :
                        approveOf(submissions[i].payload_json)
                            /\ preferOf(submissions[i].payload_json)})
            /\ readAgg("neither_selected")
                  = Cardinality({i \in RowIdx :
                        ~approveOf(submissions[i].payload_json)
                            /\ ~preferOf(submissions[i].payload_json)})

\* C10 witness: two submissions have been counted, one selecting both and
\* one selecting exactly one.
C10_Witness ==
    /\ AllCompleted
    /\ readAgg("total_submissions_counted") = 2
    /\ readAgg("both_selected") = 1
    /\ readAgg("approve_interim_yes") + readAgg("prefer_open_contest_yes") = 3

\* ------------------------------------------------------------------- C11
RECURSIVE SumRegionTotals(_, _)
\* The sum of total over the rows of region_counts whose region is in S.
SumRegionTotals(rc, S) ==
    IF S = {} THEN 0
    ELSE LET g == CHOOSE x \in S : TRUE
         IN  rc[g].total + SumRegionTotals(rc, S \ {g})

\* C11: when every started request has completed, the total fields of the
\* region rows add up to total_submissions_counted.
C11_RegionTotalsAddUp ==
    AllCompleted =>
        SumRegionTotals(region_counts, DOMAIN region_counts)
            = readAgg("total_submissions_counted")

\* C11 witness: every request has completed and two regions hold one counted
\* submission each.
C11_Witness ==
    /\ AllCompleted
    /\ \A r \in Reqs : Started(r)
    /\ Cardinality(DOMAIN region_counts) = 2
    /\ \A g \in DOMAIN region_counts : region_counts[g].total = 1
    /\ readAgg("total_submissions_counted") = 2

\* ------------------------------------------------------------------- C12
\* Submissions whose voter_id or schema_version holds the separator: the
\* pairs ("a|", "b") and ("a", "|b") differ and so do ("a", "b"), ("a|", "|b").
SeparatorVoterIds == {<<"a">>, <<"a", "|">>}
SeparatorSchemaVersions == {<<"b">>, <<"|", "b">>}

SeparatorPayloads ==
    {Payload(Str(sv), Str(<<"t">>), Str(v), Context(Str(g), Str(<<"U", "S">>)),
             Ballot(TRUE, FALSE)) :
        sv \in SeparatorSchemaVersions, v \in SeparatorVoterIds,
        g \in {<<"C", "A">>, <<"N", "Y">>}}

\* Requests issued one after another with bodies from SeparatorPayloads.
NextSeparator ==
    \E r \in Reqs :
        \/ \E body \in SeparatorPayloads : ReceiveSeq(r, body)
        \/ SelectStep(r)
        \/ InsertStep(r)
        \/ IncStep(r)
        \/ RegionInsertStep(r)
        \/ RegionUpdateStep(r)

SpecSeparator == Init /\ [][NextSeparator]_vars

\* C12 (SpecSeparator): requests whose (voter_id, schema_version) pairs
\* differ carry different dedupe keys, and a request is answered as a
\* duplicate only when a stored row holds a submission of its own pair.
C12_FingerprintDistinctness ==
    /\ \A r, q \in Reqs :
            ValidReq(r) /\ ValidReq(q) /\ ~SamePair(r, q)
                => reqs[r].dedupeKey # reqs[q].dedupeKey
    /\ \A r \in Reqs :
            IsDuplicateResp(r) =>
                \E i \in RowIdx :
                    /\ Get(submissions[i].payload_json, "voter_id")
                            = Get(reqs[r].payload, "voter_id")
                    /\ Get(submissions[i].payload_json, "schema_version")
                            = Get(reqs[r].payload, "schema_version")

\* ------------------------------------------------------------------- C13
\* The request passed validation and derived its dedupe key.
HasKey(r) == Truthy(reqs[r].dedupeKey)

\* The request got a 200 response, counted or duplicate.
IsOkResp(r) == IsCountedResp(r) \/ IsDuplicateResp(r)

\* C13: two requests that passed validation and agree on voter_id and
\* schema_version derive the same dedupe key and the same receipt id, and
\* every 200 response to them, counted or duplicate, carries that one
\* receipt_id, whatever their other fields, the order and moment of their
\* steps, and the rows already stored.
C13_FingerprintDeterminism ==
    \A r, q \in Reqs :
        HasKey(r) /\ HasKey(q) /\ SamePair(r, q) =>
            /\ reqs[r].dedupeKey = reqs[q].dedupeKey
            /\ Truthy(reqs[r].receiptId) /\ Truthy(reqs[q].receiptId)
                    => reqs[r].receiptId = reqs[q].receiptId
            /\ IsOkResp(r) /\ IsOkResp(q)
                    => reqs[r].resp.receipt_id = reqs[q].resp.receipt_id

\* C13 witness: one respondent sent two submissions that differ in region
\* and ballot; one was counted, the other answered as a duplicate, with the
\* same receipt_id.
C13_Witness ==
    \E r, q \in Reqs :
        /\ ValidReq(r) /\ ValidReq(q) /\ SamePair(r, q)
        /\ regionOf(reqs[r].payload) # regionOf(reqs[q].payload)
        /\ approveOf(reqs[r].payload) # approveOf(reqs[q].payload)
        /\ IsCountedResp(r) /\ IsDuplicateResp(q)
        /\ reqs[r].resp.receipt_id = reqs[q].resp.receipt_id

\* ------------------------------------------------------------------- C15
\* C15 (SpecResults): across every step no aggregate counter and no field
\* of a region row decreases, no counter row disappears, and the rows of
\* submissions stay as they are, new rows being added at the end only.
C15_AppendOnlyMonotonic ==
    [][/\ \A k \in DOMAIN aggregates :
            k \in DOMAIN aggregates' /\ aggregates'[k] >= aggregates[k]
       /\ \A g \in DOMAIN region_counts :
            /\ g \in DOMAIN region_counts'
            /\ region_counts'[g].total >= region_counts[g].total
            /\ region_counts'[g].approve_yes >= region_counts[g].approve_yes
       /\ Len(submissions') >= Len(submissions)
       /\ SubSeq(submissions', 1, Len(submissions)) = submissions]_vars

\* C15 witness: a region row has been created and then updated by two
\* submissions, with a results request answered along the way.
C15_Witness ==
    /\ Len(submissions) = 2
    /\ \E g \in DOMAIN region_counts : region_counts[g].total = 2
    /\ readAgg("total_submissions_counted") = 2
    /\ results.pc = "done"

\* ------------------------------------------------------------------- C16
\* C16 (SpecResults): a step of the results request, taken at any point
\* among the steps of submit requests, leaves the rows of submissions, the
\* aggregate counters and the region counters as they were.
C16_ResultsNoSideEffects ==
    [][results' # results =>
            /\ submissions' = submissions
            /\ aggregates' = aggregates
            /\ region_counts' = region_counts]_vars

\* C16 witness: the results request read the aggregates while one submit
\* request was inside updateAggregates and has now been answered, while
\* another submit request is in flight.
C16_Witness ==
    /\ results.pc = "done"
    /\ results.ballot.total_submissions_counted = 1
    /\ results.ballot.approve_interim_yes = 0
    /\ readAgg("approve_interim_yes") = 1
    /\ \E r \in Reqs : InFlight(r)

\* ------------------------------------------------------------------- C20
\* A rate of a report: null, or between 0 and 100.
RateInRange(rate) == rate = Null \/ (rate.tenths >= 0 /\ rate.tenths <= 1000)

\* C20 (SpecResults): in every reachable state, requests in flight or not,
\* approve_interim_yes, prefer_open_contest_yes and neither_selected are at
\* most total_submissions_counted, both_selected is at most each of
\* approve_interim_yes and prefer_open_contest_yes, every region's
\* approve_yes is at most its total; and every rate of a results report,
\* whether already assembled or read from the tables now, is null or lies
\* between 0 and 100.
C20_CounterOrdering ==
    /\ readAgg("approve_interim_yes") <= readAgg("total_submissions_counted")
    /\ readAgg("prefer_open_contest_yes") <= readAgg("total_submissions_counted")
    /\ readAgg("both_selected") <= readAgg("approve_interim_yes")
    /\ readAgg("both_selected") <= readAgg("prefer_open_contest_yes")
    /\ readAgg("neither_selected") <= readAgg("total_submissions_counted")
    /\ \A g \in DOMAIN region_counts :
            region_counts[g].approve_yes <= region_counts[g].total
    /\ RateInRange(ballotOf(aggregates).approval_rate_percent)
    /\ RateInRange(ballotOf(aggregates).prefer_open_rate_percent)
    /\ \A g \in DOMAIN region_counts :
            RateInRange(regionalBalanceOf(region_counts)[g].approve_rate_percent)
    /\ results.pc # "idle" =>
            /\ RateInRange(results.ballot.approval_rate_percent)
            /\ RateInRange(results.ballot.prefer_open_rate_percent)
    /\ results.pc = "done" =>
            \A g \in DOMAIN results.regional_balance :
                RateInRange(results.regional_balance[g].approve_rate_percent)

\* C20 witness: a results request read the aggregates between one
\* submission's increment of the total and its increment of
\* approve_interim_yes and reported 0 of 1, and a second region update is
\* still to come.
C20_Witness ==
    /\ results.pc = "done"
    /\ results.ballot.total_submissions_counted = 1
    /\ results.ballot.approval_rate_percent = Tenths(0)
    /\ readAgg("approve_interim_yes") = 2
    /\ readAgg("both_selected") = 1
    /\ \E r \in Reqs : reqs[r].pc = "region_update"

\* ------------------------------------------------------------------- C14
\* 100 * count / total rounded to one decimal, halves upwards, in exact
\* integer arithmetic; null when total is 0.
ExactRate(count, total) ==
    IF total = 0 THEN Null
    ELSE Tenths((2000 * count + total) \div (2 * total))

\* C14 (SpecRates): in every report approval_rate_percent and
\* prefer_open_rate_percent are null exactly when the reported total is 0
\* and otherwise 100 * count / total rounded to one decimal, that is
\* floor((2000 * count + total) / (2 * total)) tenths; every region's
\* approve_rate_percent is derived in the same way from the region's row.
C14_RateDerivation ==
    /\ results.pc # "idle" =>
            /\ results.ballot.approval_rate_percent
                    = ExactRate(results.ballot.approve_interim_yes,
                                results.ballot.total_submissions_counted)
            /\ results.ballot.prefer_open_rate_percent
                    = ExactRate(results.ballot.prefer_open_contest_yes,
                                results.ballot.total_submissions_counted)
    /\ results.pc = "done" =>
            \A g \in DOMAIN results.regional_balance :
                results.regional_balance[g].approve_rate_percent
                    = ExactRate(region_counts[g].approve_yes, region_counts[g].total)

\* ------------------------------------------------------------------- C17
\* C17: a submit request that died part-way has written nothing, or its
\* Submission row and nothing else: none of its increments of the aggregate
\* counters and of its region's counters has been applied.
C17_SafePartialState ==
    \A r \in Reqs :
        reqs[r].pc = "failed" => reqs[r].wrote \cap LedgerTables = {}

\* ------------------------------------------------------------------- C18
\* Submissions of the two respondents whose receipt ids coincide, and of a
\* third respondent.
CollidingPayloads ==
    {Payload(Str(<<"1">>), Str(<<"t">>), Str(v), Context(Str(g), Str(<<"U", "S">>)),
             Ballot(TRUE, FALSE)) :
        v \in CollidingVoterIds \cup {<<"a">>}, g \in {<<"C", "A">>, <<"N", "Y">>}}

\* Requests issued one after another with bodies from CollidingPayloads.
NextColliding ==
    \E r \in Reqs :
        \/ \E body \in CollidingPayloads : ReceiveSeq(r, body)
        \/ SelectStep(r)
        \/ InsertStep(r)
        \/ IncStep(r)
        \/ RegionInsertStep(r)
        \/ RegionUpdateStep(r)

SpecColliding == Init /\ [][NextColliding]_vars

\* C18 (SpecColliding): a valid request that found its dedupe key absent,
\* no other request being under way, gets its row inserted, and it is never
\* answered with an error; the receipt ids of the stored rows differ.
C18_FreshBallotCounted ==
    /\ \A r \in Reqs :
            reqs[r].pc = "insert" =>
                insertAllowed(submissions, reqs[r].receiptId, reqs[r].dedupeKey)
    /\ \A r \in Reqs :
            ValidReq(r) /\ reqs[r].pc = "done" => IsOkResp(r)
    /\ \A i, j \in RowIdx :
            i # j => submissions[i].receipt_id # submissions[j].receipt_id

\* ------------------------------------------------------------------- C19
\* part_000's region statement: INSERT ... VALUES (?, 1, ?) ON CONFLICT(region)
\* DO UPDATE SET total = total + 1, approve_yes = approve_yes + ?
regionUpsert(rc, region, approve) ==
    IF region \in DOMAIN rc
    THEN [rc EXCEPT ![region] =
            [total |-> @.total + 1,
             approve_yes |-> @.approve_yes + (IF approve THEN 1 ELSE 0)]]
    ELSE rc @@ (region :> [total |-> 1, approve_yes |-> IF approve THEN 1 ELSE 0])

RECURSIVE incAll(_, _)
\* The awaited inc calls of updateAggregates, one after the other.
incAll(agg, keys) ==
    IF keys = <<>> THEN agg ELSE incAll(inc(agg, Head(keys)), Tail(keys))

\* part_000 has no try/catch around its handlers: an exception thrown by a
\* storage statement escapes fetch, and the platform answers with its own
\* 500 page, which carries no JSON body and no error code.
Escaped == [NoResp EXCEPT !.status = 500]

\* part_000's handleSubmit, run from its first statement to its response
\* with no other request in between, as request r on the database db.
handleSubmit_part000(db, r, body) ==
    IF body = BadBody
    THEN [db EXCEPT !.resp[r] = [NoResp EXCEPT !.status = 400, !.error = "BAD_JSON"]]
    ELSE IF validate(body) # <<>>
    THEN [db EXCEPT !.resp[r] = [NoResp EXCEPT !.status = 422,
                                               !.error = "VALIDATION_FAILED",
                                               !.details = validate(body)]]
    ELSE LET dedupeKey == dedupeKeyOf(body)
             existing == selectReceipt(db.submissions, dedupeKey)
             receiptId == receiptIdOf(dedupeKey)
         IN  IF Truthy(existing)
             THEN [db EXCEPT !.resp[r] = [NoResp EXCEPT !.status = 200, !.ok = TRUE,
                                                        !.receipt_id = existing]]
             ELSE IF ~insertAllowed(db.submissions, receiptId, dedupeKey)
             THEN [db EXCEPT !.resp[r] = Escaped]
             ELSE [db EXCEPT
                    !.submissions = Append(@, [receipt_id |-> receiptId,
                                               dedupe_key |-> dedupeKey,
                                               region |-> regionOf(body),
                                               payload_json |-> body]),
                    !.aggregates = incAll(@, incKeys(body)),
                    !.region_counts = regionUpsert(@, regionOf(body), approveOf(body)),
                    !.resp[r] = [NoResp EXCEPT !.status = 200, !.ok = TRUE,
                                               !.counted = TRUE,
                                               !.receipt_id = receiptId]]

\* part_000's handleResults on the database db.
handleResults_part000(db) ==
    [pc |-> "done", ballot |-> ballotOf_part000(db.aggregates),
     regional_balance |-> regionalBalanceOf_part000(db.region_counts)]

\* part_000 has answered every request worker.js has answered.
Synced ==
    /\ \A r \in Reqs : reqs[r].pc = "done" => alt.resp[r] # NoResp
    /\ results.pc = "done" => alt.report # Undef

\* The two variants side by side: each request is handled by worker.js,
\* statement by statement, and then by part_000, before the next request
\* is made.
ReceiveBoth(r, body) ==
    /\ Synced
    /\ results.pc # "regions"
    /\ ReceiveSeq(r, body)

ResultsBoth ==
    /\ Synced
    /\ Quiescent
    /\ ResultsAggStep

Part000Submit(r) ==
    /\ reqs[r].pc = "done"
    /\ alt.resp[r] = NoResp
    /\ alt' = handleSubmit_part000(alt, r, reqs[r].payload)
    /\ UNCHANGED <<submissions, aggregates, region_counts, reqs, results>>

Part000Results ==
    /\ results.pc = "done"
    /\ alt.report = Undef
    /\ alt' = [alt EXCEPT !.report = handleResults_part000(alt)]
    /\ UNCHANGED <<submissions, aggregates, region_counts, reqs, results>>

\* Bodies for the side-by-side run: the respondents of CollidingPayloads, a
\* body that does not parse, a JSON null and a payload without context.
BothBodies ==
    CollidingPayloads \cup InvalidPayloads \cup {BadBody}

NextBoth ==
    \/ \E r \in Reqs :
        \/ \E body \in BothBodies : ReceiveBoth(r, body)
        \/ SelectStep(r)
        \/ InsertStep(r)
        \/ IncStep(r)
        \/ RegionInsertStep(r)
        \/ RegionUpdateStep(r)
        \/ Part000Submit(r)
    \/ ResultsBoth
    \/ ResultsRegionStep
    \/ Part000Results

SpecBoth == Init /\ [][NextBoth]_vars

\* C19 (SpecBoth): every request gets the same outcome from the two
\* variants, that is the same status and error code (with them the same
\* accept/reject verdict) or the same ok, counted and receipt_id, and once
\* both have answered every request made, their submissions rows, aggregate
\* counters and region counters are the same.
C19_VariantsEquivalent ==
    /\ \A r \in Reqs :
            reqs[r].pc = "done" /\ alt.resp[r] # NoResp =>
                /\ alt.resp[r].status = reqs[r].resp.status
                /\ alt.resp[r].error = reqs[r].resp.error
                /\ alt.resp[r].ok = reqs[r].resp.ok
                /\ alt.resp[r].counted = reqs[r].resp.counted
                /\ alt.resp[r].receipt_id = reqs[r].resp.receipt_id
    /\ Synced /\ Quiescent /\ results.pc # "regions" =>
            /\ alt.submissions = submissions
            /\ alt.aggregates = aggregates
            /\ alt.region_counts = region_counts

====
